---------------------------- MODULE Spec2Model ----------------------------
(***************************************************************************)
(* Model of the custom-resource completion reporter                        *)
(*   packages/aws-cdk-lib/custom-resources/lib/provider-framework/runtime/ *)
(*   cfn-response.ts                                                       *)
(* submitResponse, safeHandler, redactDataFromPayload and the process-wide *)
(* includeStackTraces toggle, driven by an orchestrator that submits       *)
(* events and by a transport whose deliveries succeed or fail.             *)
(***************************************************************************)
EXTENDS Integers, Sequences, FiniteSets, TLC

VARIABLES
    pc,                 \* position of the current invocation
    event,              \* the event object handed to the handler (mutable)
    received,           \* history: the event as the orchestrator submitted it
    includeStackTraces, \* the exported module-level toggle
    thrown,             \* the value the inner handler rejected with
    blockCalls,         \* history: inner-handler invocations of this invocation
    followUp,           \* history: the failed Create this invocation's Delete follows, if any
    call,               \* arguments of the submitResponse call in progress
    reports,            \* history: the payload objects of submitResponse in this invocation
    requests,           \* history: HTTP requests handed to httpRequest, in order
    outcomes,           \* history: how each settled delivery attempt ended, in order
    sleeps,             \* history: delays slept between delivery attempts
    logs,               \* history: log lines of this invocation
    result,             \* how the invocation ended: pending, returned, threw
    escaped,            \* what the invocation threw to its caller
    inv,                \* two invocations in flight at once: the state of each
    rule                \* the addTarget calls made on an events rule, and what each gave

vars == << pc, event, received, includeStackTraces, thrown, blockCalls, followUp,
           call, reports, requests, outcomes, sleeps, logs, result, escaped,
           inv, rule >>

---------------------------------------------------------------------------
(* JavaScript values.  A value carries its type tag; an absent property    *)
(* reads as undefined.                                                     *)

undefined == [t |-> "undefined"]
null == [t |-> "null"]
Str(s) == [t |-> "string", s |-> s]
Bool(b) == [t |-> "boolean", b |-> b]
Obj(o) == [t |-> "object", o |-> o]

\* ToBoolean: what `!v`, `v || w` and `if (v)` test.
Truthy(v) ==
    CASE v.t = "undefined" -> FALSE
      [] v.t = "null"      -> FALSE
      [] v.t = "string"    -> v.s # ""
      [] v.t = "boolean"   -> v.b
      [] OTHER             -> TRUE

\* a || b
Or(a, b) == IF Truthy(a) THEN a ELSE b

CREATE_FAILED_PHYSICAL_ID_MARKER == "AWSCDK::CustomResourceProviderFramework::CREATE_FAILED"
MISSING_PHYSICAL_ID_MARKER == "AWSCDK::CustomResourceProviderFramework::MISSING_PHYSICAL_ID"


\* obj[k]: an absent property reads as undefined.
Get(obj, k) == IF k \in DOMAIN obj.o THEN obj.o[k] ELSE undefined

---------------------------------------------------------------------------
(* JSON.  A JSON text is modelled by its syntax tree: an object text is    *)
(* the set of its members <<key, text>>.  JSON.stringify leaves out every  *)
(* member whose value is undefined; JSON.parse rebuilds the object from    *)
(* the members that are in the text.                                       *)

RECURSIVE JSONstringify(_)
JSONstringify(v) ==
    CASE v.t = "string"  -> [j |-> "string", s |-> v.s]
      [] v.t = "boolean" -> [j |-> "boolean", b |-> v.b]
      [] v.t = "null"    -> [j |-> "null"]
      [] v.t = "object"  ->
            [j |-> "object",
             members |-> { <<k, JSONstringify(v.o[k])>> :
                             k \in {x \in DOMAIN v.o : v.o[x].t # "undefined"} }]

RECURSIVE JSONparse(_)
JSONparse(text) ==
    CASE text.j = "string"  -> Str(text.s)
      [] text.j = "boolean" -> Bool(text.b)
      [] text.j = "null"    -> null
      [] text.j = "object"  ->
            Obj([k \in {m[1] : m \in text.members} |->
                    JSONparse((CHOOSE m \in text.members : m[1] = k)[2])])

\* Buffer.byteLength(text, 'utf8') of a JSON text (all characters here are ASCII).
RECURSIVE byteLength(_)
RECURSIVE membersByteLength(_)
membersByteLength(members) ==
    IF members = {} THEN 0
    ELSE LET m == CHOOSE x \in members : TRUE
         IN  Len(m[1]) + 3 + byteLength(m[2]) + membersByteLength(members \ {m})

byteLength(text) ==
    CASE text.j = "string"  -> Len(text.s) + 2
      [] text.j = "boolean" -> IF text.b THEN 4 ELSE 5
      [] text.j = "null"    -> 4
      [] text.j = "object"  ->
            LET n == Cardinality(text.members)
            IN  2 + membersByteLength(text.members) + (IF n = 0 THEN 0 ELSE n - 1)

---------------------------------------------------------------------------
(* url.parse, on the callback URLs of the model.                           *)

UrlParts ==
    { [protocol |-> "http:",  hostname |-> "x", pathname |-> "/y", search |-> "?t=1"],
      [protocol |-> "http:",  hostname |-> "x", pathname |-> "/y", search |-> "?t=2"],
      [protocol |-> "https:", hostname |-> "cfn.example", pathname |-> "/resp", search |-> ""] }

Href(u) == u.protocol \o "//" \o u.hostname \o u.pathname \o u.search

ResponseURLs == { Href(u) : u \in UrlParts }

url_parse(href) ==
    LET u == CHOOSE x \in UrlParts : Href(x) = href
    IN  [protocol |-> u.protocol, hostname |-> u.hostname, pathname |-> u.pathname,
         path |-> u.pathname \o u.search]

---------------------------------------------------------------------------
(* redactDataFromPayload                                                   *)

\* payload.Data[key] = '*****' for every key of Object.keys(payload.Data)
MaskData(payload) ==
    LET Data == Get(payload, "Data")
    IN  IF Truthy(Data)
        THEN Obj([payload.o EXCEPT
                    !["Data"] = Obj([key \in DOMAIN Data.o |-> Str("*****")])])
        ELSE payload

\* Mutant: the values are masked in the payload itself, not in a copy of it.
RedactCallInPlace(payload) ==
    [ argument |-> MaskData(payload), returned |-> MaskData(payload) ]

\* Mutant: the copy is returned with its values as they are.
RedactCallUnmasked(payload) ==
    [ argument |-> payload, returned |-> JSONparse(JSONstringify(payload)) ]

\* A call of redactDataFromPayload: the object its argument refers to when
\* the call is over, and the object it returns.  The values are assigned in
\* the deep copy, so the argument is as it was.
RedactCall(payload) ==
    LET redactedPayload == JSONparse(JSONstringify(payload))
    IN  [ argument |-> payload, returned |-> MaskData(redactedPayload) ]

redactDataFromPayload(payload) == RedactCall(payload).returned

---------------------------------------------------------------------------
(* submitResponse                                                          *)

\* Mutant: the reason is not defaulted.
PayloadReasonNoDefault(status, options) == options.reason

\* Reason: options.reason || status
PayloadReason(status, options) == Or(options.reason, Str(status))

\* Mutant: the missing-id marker is not substituted.
PayloadPhysicalResourceIdNoDefault(ev) == ev.PhysicalResourceId

\* PhysicalResourceId: event.PhysicalResourceId || MISSING_PHYSICAL_ID_MARKER
PayloadPhysicalResourceId(ev) ==
    Or(ev.PhysicalResourceId, Str(MISSING_PHYSICAL_ID_MARKER))

\* Mutant: the NoEcho option is not copied into the payload.
StatusPayloadWithoutNoEcho(status, ev, options) ==
    [ Status             |-> Str(status),
      Reason             |-> PayloadReason(status, options),
      StackId            |-> ev.StackId,
      RequestId          |-> ev.RequestId,
      PhysicalResourceId |-> PayloadPhysicalResourceId(ev),
      LogicalResourceId  |-> ev.LogicalResourceId,
      NoEcho             |-> undefined,
      Data               |-> ev.Data ]

\* const json = { Status, Reason, StackId, RequestId, PhysicalResourceId, ... }
StatusPayload(status, ev, options) ==
    [ Status             |-> Str(status),
      Reason             |-> PayloadReason(status, options),
      StackId            |-> ev.StackId,
      RequestId          |-> ev.RequestId,
      PhysicalResourceId |-> PayloadPhysicalResourceId(ev),
      LogicalResourceId  |-> ev.LogicalResourceId,
      NoEcho             |-> options.noEcho,
      Data               |-> ev.Data ]

\* Mutant: the path is logged with its query.
loggingSafeUrlWithQuery(parsedUrl) ==
    parsedUrl.protocol \o "//" \o parsedUrl.hostname \o "/" \o parsedUrl.path

loggingSafeUrl(parsedUrl) ==
    parsedUrl.protocol \o "//" \o parsedUrl.hostname \o "/" \o parsedUrl.pathname \o "?***"

\* The one log line of submitResponse.
SubmitLogLine(json, ev, options) ==
    LET parsedUrl == url_parse(ev.ResponseURL.s)
    IN  IF Truthy(options.noEcho)
        THEN << "submit redacted response to cloudformation",
                loggingSafeUrl(parsedUrl), redactDataFromPayload(Obj(json)) >>
        ELSE << "submit response to cloudformation", loggingSafeUrl(parsedUrl), Obj(json) >>

\* The object json refers to once the line is logged.
JsonAfterLog(json, options) ==
    IF Truthy(options.noEcho) THEN RedactCall(Obj(json)).argument.o ELSE json

\* Mutant: with NoEcho set the redacted payload is what is serialised and sent.
HttpRequestArgsRedacted(json, ev) ==
    LET sent == IF Truthy(json.NoEcho) THEN redactDataFromPayload(Obj(json)) ELSE Obj(json)
        responseBody == JSONstringify(sent)
        parsedUrl == url_parse(ev.ResponseURL.s)
    IN  [ hostname |-> parsedUrl.hostname,
          path     |-> parsedUrl.path,
          method   |-> "PUT",
          headers  |-> [ contentType |-> "", contentLength |-> byteLength(responseBody) ],
          body     |-> responseBody ]

\* The arguments handed to httpRequest: the request options and the body.
HttpRequestArgs(json, ev) ==
    LET responseBody == JSONstringify(Obj(json))
        parsedUrl == url_parse(ev.ResponseURL.s)
    IN  [ hostname |-> parsedUrl.hostname,
          path     |-> parsedUrl.path,
          method   |-> "PUT",
          headers  |-> [ contentType |-> "", contentLength |-> byteLength(responseBody) ],
          body     |-> responseBody ]

\* Mutant: fewer attempts are allowed.
retryOptionsFewerAttempts == [ attempts |-> 3, sleep |-> 1000 ]

retryOptions == [ attempts |-> 5, sleep |-> 1000 ]

\* withRetries(options, fn): whether a failed attempt is followed by another,
\* given how many attempts have been made, and the delay slept before it.
withRetriesAgain(options, made) == made < options.attempts

withRetriesDelay(options, made) == options.sleep

\* The options of a call that passes none of them: {}, and { reason }.
NoOptions == [ reason |-> undefined, noEcho |-> undefined ]

\* The log when the first attempt is handed to httpRequest (line 51): the
\* line of line 45 is in it.
LoggedAtFirstAttempt(lines, line) == Append(lines, line)

\* submitResponse up to its first await: the payload is built, the line is
\* logged, and the first delivery attempt is handed to httpRequest.
\* `lines` is the log so far, `who` names the caller.
SubmitResponse(status, ev, options, who, lines) ==
    LET json == StatusPayload(status, ev, options)
        xs   == HttpRequestArgs(json, ev)
    IN  /\ call' = [ status |-> status, options |-> options, who |-> who, xs |-> xs,
                     logged |-> LoggedAtFirstAttempt(lines, SubmitLogLine(json, ev, options)) ]
        /\ reports' = Append(reports, JsonAfterLog(json, options))
        /\ logs' = Append(lines, SubmitLogLine(json, ev, options))
        /\ requests' = Append(requests, xs)
        /\ pc' = "submit"

---------------------------------------------------------------------------
(* Inputs                                                                  *)

PhysicalIds ==
    { undefined, Str(""), Str(CREATE_FAILED_PHYSICAL_ID_MARKER),
      Str(MISSING_PHYSICAL_ID_MARKER), Str("phys-1") }

DataValues ==
    { undefined,
      Obj([Secret |-> Str("s3cr3t")]),
      Obj([Secret |-> Str("hunter2")]),
      Obj([Arn |-> Str("arn:1"), Opt |-> undefined]),
      Obj([Arn |-> Str("arn:1"), Opt |-> Str("x")]) }

Events ==
    [ RequestType        : { Str("Create"), Str("Update"), Str("Delete") },
      StackId            : { Str("s") },
      RequestId          : { Str("r") },
      LogicalResourceId  : { Str("L") },
      PhysicalResourceId : PhysicalIds,
      ResponseURL        : { Str(u) : u \in ResponseURLs },
      Data               : DataValues ]

\* submitResponse takes a CloudFormationEventContext and reads no RequestType:
\* the events of the direct calls all carry the same one.
ContextEvents == { ev \in Events : ev.RequestType = Str("Update") }

ResponseOptions ==
    [ reason : { undefined, Str(""), Str("boom") },
      noEcho : { undefined, Bool(TRUE), Bool(FALSE) } ]

\* What the inner handler may reject with: the Retry signal, an Error, an
\* Error with an empty message, a value that is no Error (it has neither
\* stack nor message), and null.
RetrySignal ==
    [ class |-> "Retry", stack |-> Str("Error: wait at isComplete (index.js:1:1)"),
      message |-> Str("wait") ]

Rejections ==
    { RetrySignal,
      [ class |-> "Error", stack |-> Str("Error: boom at onEvent (index.js:1:1)"), message |-> Str("boom") ],
      [ class |-> "Error", stack |-> Str("Error at onEvent (index.js:1:1)"), message |-> Str("") ],
      [ class |-> "Other", stack |-> undefined, message |-> undefined ],
      [ class |-> "Nullish" ] }

Nothing == [ class |-> "none" ]
TypeError == [ class |-> "TypeError" ]
TransportError == [ class |-> "TransportError" ]

NoCall == [ who |-> "none" ]

\* The invocations that are in flight at once.
Procs == {1, 2}

\* An invocation that has not begun.
ProcInit ==
    [ pc |-> "idle", event |-> Nothing, received |-> Nothing, thrown |-> Nothing,
      seen |-> TRUE, call |-> NoCall, requests |-> << >> ]

---------------------------------------------------------------------------
(* The state machine                                                       *)

Init ==
    /\ pc = "idle"
    /\ event = Nothing
    /\ received = Nothing
    /\ includeStackTraces = TRUE
    /\ thrown = Nothing
    /\ blockCalls = 0
    /\ followUp = << >>
    /\ call = NoCall
    /\ reports = << >>
    /\ requests = << >>
    /\ outcomes = << >>
    /\ sleeps = << >>
    /\ logs = << >>
    /\ result = "pending"
    /\ escaped = Nothing
    /\ inv = [ p \in Procs |-> ProcInit ]
    /\ rule = << >>

\* A test assigns the exported toggle between invocations.
SetIncludeStackTraces(b) ==
    /\ pc = "idle"
    /\ includeStackTraces # b
    /\ includeStackTraces' = b
    /\ UNCHANGED << inv, rule, pc, event, received, thrown, blockCalls, followUp, call, reports,
                    requests, outcomes, sleeps, logs, result, escaped >>

\* The orchestrator submits a fresh request: the guarded handler is invoked.
Invoke(ev) ==
    /\ pc = "idle"
    /\ pc' = "entry"
    /\ event' = ev
    /\ received' = ev
    /\ UNCHANGED << inv, rule, includeStackTraces, thrown, blockCalls, followUp, call, reports,
                    requests, outcomes, sleeps, logs, result, escaped >>

\* Mutant: the Delete is recognised by the wrong marker.
IsIgnoredDeleteWrongMarker(ev) ==
    /\ ev.RequestType = Str("Delete")
    /\ ev.PhysicalResourceId = Str(MISSING_PHYSICAL_ID_MARKER)

\* Mutant: the request type is not looked at.
IsIgnoredDeleteAnyType(ev) ==
    ev.PhysicalResourceId = Str(CREATE_FAILED_PHYSICAL_ID_MARKER)

\* event.RequestType === 'Delete' && event.PhysicalResourceId === CREATE_FAILED_PHYSICAL_ID_MARKER
IsIgnoredDelete(ev) ==
    /\ ev.RequestType = Str("Delete")
    /\ ev.PhysicalResourceId = Str(CREATE_FAILED_PHYSICAL_ID_MARKER)

\* safeHandler, lines 69-73: the Delete that follows a failed Create.
HandlerIgnoreDelete ==
    /\ pc = "entry"
    /\ IsIgnoredDelete(event)
    /\ SubmitResponse("SUCCESS", event, NoOptions, "ignore",
                      Append(logs, << "ignoring DELETE event caused by a failed CREATE event" >>))
    /\ UNCHANGED << inv, rule, event, received, includeStackTraces, thrown, blockCalls, followUp,
                    outcomes, sleeps, result, escaped >>

\* safeHandler, line 76: every other event is handed to the inner handler.
HandlerCallBlock ==
    /\ pc = "entry"
    /\ ~ IsIgnoredDelete(event)
    /\ pc' = "block"
    /\ blockCalls' = blockCalls + 1
    /\ UNCHANGED << inv, rule, event, received, includeStackTraces, thrown, followUp, call, reports,
                    requests, outcomes, sleeps, logs, result, escaped >>

\* Mutant: the wrapper reports SUCCESS itself when the inner handler resolves.
BlockReturnsAndReports ==
    /\ pc = "block"
    /\ SubmitResponse("SUCCESS", event, NoOptions, "success", logs)
    /\ UNCHANGED << inv, rule, event, received, includeStackTraces, thrown, blockCalls, followUp,
                    outcomes, sleeps, result, escaped >>

\* The inner handler resolves: the guarded handler returns.
BlockReturns ==
    /\ pc = "block"
    /\ pc' = "done"
    /\ result' = "returned"
    /\ UNCHANGED << inv, rule, event, received, includeStackTraces, thrown, blockCalls, followUp,
                    call, reports, requests, outcomes, sleeps, logs, escaped >>

\* The inner handler rejects with e.
BlockThrows(e) ==
    /\ pc = "block"
    /\ pc' = "catch"
    /\ thrown' = e
    /\ UNCHANGED << inv, rule, event, received, includeStackTraces, blockCalls, followUp, call,
                    reports, requests, outcomes, sleeps, logs, result, escaped >>

\* Mutant: the Retry signal is not told apart from other failures.
InstanceofRetryNever(e) == FALSE

\* e instanceof Retry
InstanceofRetry(e) == e.class = "Retry"

\* Mutant: the marker is assigned before the Retry signal is told apart.
CatchRetryAfterMarking ==
    /\ pc = "catch"
    /\ InstanceofRetry(thrown)
    /\ event' = IF ~ Truthy(event.PhysicalResourceId) /\ event.RequestType = Str("Create")
                THEN [event EXCEPT !.PhysicalResourceId = Str(CREATE_FAILED_PHYSICAL_ID_MARKER)]
                ELSE event
    /\ logs' = Append(logs, << "retry requested by handler" >>)
    /\ pc' = "done"
    /\ result' = "threw"
    /\ escaped' = thrown
    /\ UNCHANGED << inv, rule, received, includeStackTraces, thrown, blockCalls, followUp,
                    call, reports, requests, outcomes, sleeps >>

\* safeHandler, lines 79-82.
CatchRetry ==
    /\ pc = "catch"
    /\ InstanceofRetry(thrown)
    /\ logs' = Append(logs, << "retry requested by handler" >>)
    /\ pc' = "done"
    /\ result' = "threw"
    /\ escaped' = thrown
    /\ UNCHANGED << inv, rule, event, received, includeStackTraces, thrown, blockCalls, followUp,
                    call, reports, requests, outcomes, sleeps >>

\* Mutant: the marker is assigned on every request type.
MarkCreateFailedAnyType(ev) ==
    IF ~ Truthy(ev.PhysicalResourceId)
    THEN [ev EXCEPT !.PhysicalResourceId = Str(CREATE_FAILED_PHYSICAL_ID_MARKER)]
    ELSE ev

\* Mutant: the marker is never assigned.
MarkCreateFailedNever(ev) == ev

\* safeHandler, lines 84-98: the event after the marker is assigned.
MarkCreateFailed(ev) ==
    IF ~ Truthy(ev.PhysicalResourceId) /\ ev.RequestType = Str("Create")
    THEN [ev EXCEPT !.PhysicalResourceId = Str(CREATE_FAILED_PHYSICAL_ID_MARKER)]
    ELSE ev

\* Mutant: the warning is logged for every event that is no Create without id.
CatchLogLinesWarnKnownId(ev) ==
    IF ~ Truthy(ev.PhysicalResourceId) /\ ev.RequestType = Str("Create")
    THEN << << "CREATE failed, responding with a marker physical resource id so that the subsequent DELETE will be ignored" >> >>
    ELSE << << "ERROR: Malformed event. \"PhysicalResourceId\" is required: ",
               JSONstringify(Obj([ev EXCEPT !.ResponseURL = Str("...")])) >> >>

\* safeHandler, lines 84-98: the lines logged on the way.
CatchLogLines(ev) ==
    IF Truthy(ev.PhysicalResourceId) THEN << >>
    ELSE IF ev.RequestType = Str("Create")
    THEN << << "CREATE failed, responding with a marker physical resource id so that the subsequent DELETE will be ignored" >> >>
    ELSE << << "ERROR: Malformed event. \"PhysicalResourceId\" is required: ",
               JSONstringify(Obj([ev EXCEPT !.ResponseURL = Str("...")])) >> >>

\* Mutant: the toggle selects the other way round.
FailureReasonSwapped(e) == IF includeStackTraces THEN e.message ELSE e.stack

\* includeStackTraces ? e.stack : e.message
FailureReason(e) == IF includeStackTraces THEN e.stack ELSE e.message

\* Mutant: FAILED is reported before the marker is assigned, and the
\* assignment is lost.
CatchReportBeforeMarking ==
    /\ pc = "catch"
    /\ ~ InstanceofRetry(thrown)
    /\ thrown.class # "Nullish"
    /\ SubmitResponse("FAILED", event,
                      [ reason |-> FailureReason(thrown), noEcho |-> undefined ],
                      "catch", logs \o CatchLogLines(event))
    /\ UNCHANGED << inv, rule, event, received, includeStackTraces, thrown, blockCalls, followUp,
                    outcomes, sleeps, result, escaped >>

\* safeHandler, lines 84-103, for a value that has properties: FAILED is reported.
CatchReport ==
    /\ pc = "catch"
    /\ ~ InstanceofRetry(thrown)
    /\ thrown.class # "Nullish"
    /\ event' = MarkCreateFailed(event)
    /\ SubmitResponse("FAILED", MarkCreateFailed(event),
                      [ reason |-> FailureReason(thrown), noEcho |-> undefined ],
                      "catch", logs \o CatchLogLines(event))
    /\ UNCHANGED << inv, rule, received, includeStackTraces, thrown, blockCalls, followUp, outcomes, sleeps,
                    result, escaped >>

\* safeHandler, lines 84-102, for null or undefined: reading e.stack or
\* e.message throws a TypeError out of the catch block.
CatchNullish ==
    /\ pc = "catch"
    /\ ~ InstanceofRetry(thrown)
    /\ thrown.class = "Nullish"
    /\ event' = MarkCreateFailed(event)
    /\ logs' = logs \o CatchLogLines(event)
    /\ pc' = "done"
    /\ result' = "threw"
    /\ escaped' = TypeError
    /\ UNCHANGED << inv, rule, received, includeStackTraces, thrown, blockCalls, followUp, call,
                    reports, requests, outcomes, sleeps >>

\* Another caller (the inner handler's success path) calls submitResponse itself.
SubmitDirect(status, ev, options) ==
    /\ pc = "idle"
    /\ event' = ev
    /\ received' = ev
    /\ SubmitResponse(status, ev, options, "direct", logs)
    /\ UNCHANGED << inv, rule, includeStackTraces, thrown, blockCalls, followUp, outcomes, sleeps, result,
                    escaped >>

\* httpRequest resolves: withRetries returns, submitResponse returns, and so
\* does its caller.
DeliverySucceeds ==
    /\ pc = "submit"
    /\ outcomes' = Append(outcomes, "resolved")
    /\ pc' = "done"
    /\ result' = "returned"
    /\ UNCHANGED << inv, rule, event, received, includeStackTraces, thrown, blockCalls, followUp,
                    call, reports, requests, sleeps, logs, escaped >>

\* Mutant: a retry serializes the payload again, from what was logged.
DeliveryFailsRetryLoggedBody ==
    /\ pc = "submit"
    /\ withRetriesAgain(retryOptions, Len(requests))
    /\ outcomes' = Append(outcomes, "rejected")
    /\ sleeps' = Append(sleeps, withRetriesDelay(retryOptions, Len(requests)))
    /\ requests' = Append(requests,
                          [call.xs EXCEPT !.body = JSONstringify(logs[Len(logs)][3])])
    /\ UNCHANGED << inv, rule, pc, event, received, includeStackTraces, thrown, blockCalls,
                    followUp, call, reports, logs, result, escaped >>

\* httpRequest rejects and withRetries tries again after its delay.
DeliveryFailsRetry ==
    /\ pc = "submit"
    /\ withRetriesAgain(retryOptions, Len(requests))
    /\ outcomes' = Append(outcomes, "rejected")
    /\ sleeps' = Append(sleeps, withRetriesDelay(retryOptions, Len(requests)))
    /\ requests' = Append(requests, call.xs)
    /\ UNCHANGED << inv, rule, pc, event, received, includeStackTraces, thrown, blockCalls, followUp,
                    call, reports, logs, result, escaped >>

\* Mutant: the rejection of the last attempt is not awaited, and is lost.
DeliveryFailsGiveUpSwallowed ==
    /\ pc = "submit"
    /\ ~ withRetriesAgain(retryOptions, Len(requests))
    /\ pc' = "done"
    /\ result' = "returned"
    /\ outcomes' = Append(outcomes, "rejected")
    /\ UNCHANGED << inv, rule, event, received, includeStackTraces, thrown, blockCalls, followUp,
                    call, reports, requests, sleeps, logs, escaped >>

\* httpRequest rejects and withRetries gives up: the error reaches the caller
\* of submitResponse, and from there the caller of the guarded handler.
DeliveryFailsGiveUp ==
    /\ pc = "submit"
    /\ ~ withRetriesAgain(retryOptions, Len(requests))
    /\ pc' = "done"
    /\ result' = "threw"
    /\ escaped' = TransportError
    /\ outcomes' = Append(outcomes, "rejected")
    /\ UNCHANGED << inv, rule, event, received, includeStackTraces, thrown, blockCalls, followUp,
                    call, reports, requests, sleeps, logs >>

\* The orchestrator parses the body it received.
Delivered == JSONparse(requests[Len(requests)].body)

\* After the FAILED report of a Create is delivered the orchestrator rolls
\* back: it submits a Delete carrying the PhysicalResourceId of that report.
FollowUpDelete(url) ==
    /\ pc = "done"
    /\ result = "returned"
    /\ call.who = "catch"
    /\ received.RequestType = Str("Create")
    /\ followUp = << >>
    /\ LET ev == [received EXCEPT !.RequestType = Str("Delete"),
                                  !.PhysicalResourceId = Get(Delivered, "PhysicalResourceId"),
                                  !.ResponseURL = Str(url)]
       IN  /\ event' = ev
           /\ received' = ev
    /\ followUp' = << [ event |-> received, blockCalls |-> blockCalls ] >>
    /\ blockCalls' = 0
    /\ pc' = "entry"
    /\ thrown' = Nothing
    /\ call' = NoCall
    /\ reports' = << >>
    /\ requests' = << >>
    /\ outcomes' = << >>
    /\ sleeps' = << >>
    /\ logs' = << >>
    /\ result' = "pending"
    /\ escaped' = Nothing
    /\ UNCHANGED << inv, rule, includeStackTraces >>

\* The invocation is over: nothing of it is kept but the toggle.
Finish ==
    /\ pc = "done"
    /\ pc' = "idle"
    /\ event' = Nothing
    /\ received' = Nothing
    /\ thrown' = Nothing
    /\ blockCalls' = 0
    /\ followUp' = << >>
    /\ call' = NoCall
    /\ reports' = << >>
    /\ requests' = << >>
    /\ outcomes' = << >>
    /\ sleeps' = << >>
    /\ logs' = << >>
    /\ result' = "pending"
    /\ escaped' = Nothing
    /\ UNCHANGED << inv, rule, includeStackTraces >>

Next ==
    \/ \E b \in BOOLEAN : SetIncludeStackTraces(b)
    \/ \E ev \in Events : Invoke(ev)
    \/ HandlerIgnoreDelete
    \/ HandlerCallBlock
    \/ BlockReturns
    \/ \E e \in Rejections : BlockThrows(e)
    \/ CatchRetry
    \/ CatchReport
    \/ CatchNullish
    \/ \E status \in {"SUCCESS", "FAILED"}, ev \in ContextEvents, options \in ResponseOptions :
          SubmitDirect(status, ev, options)
    \/ DeliverySucceeds
    \/ DeliveryFailsRetry
    \/ DeliveryFailsGiveUp
    \/ \E url \in ResponseURLs : FollowUpDelete(url)
    \/ Finish

Spec == Init /\ [][Next]_vars

\* A delivery attempt settles: the promise of httpRequest resolves or rejects,
\* and the sleep between two attempts ends.
FairSpec ==
    Spec /\ WF_vars(DeliverySucceeds \/ DeliveryFailsRetry \/ DeliveryFailsGiveUp)

\* The waiter has caught the Retry signal and invokes the guarded handler
\* again, with the event as the first invocation left it.
InvokeAgain ==
    /\ pc = "done"
    /\ result = "threw"
    /\ InstanceofRetry(escaped)
    /\ followUp = << >>
    /\ followUp' = << [ again |-> received, blockCalls |-> blockCalls ] >>
    /\ pc' = "entry"
    /\ blockCalls' = 0
    /\ thrown' = Nothing
    /\ logs' = << >>
    /\ result' = "pending"
    /\ escaped' = Nothing
    /\ UNCHANGED << inv, rule, event, received, includeStackTraces, call, reports, requests,
                    outcomes, sleeps >>

RetryNext == Next \/ InvokeAgain

\* The invocations of the guarded handler, with those the waiter repeats.
RetrySpec == Init /\ [][RetryNext]_vars

---------------------------------------------------------------------------
(* Two invocations in flight at once.  An invocation runs until its next   *)
(* await and then yields: the steps of the two interleave at the awaits    *)
(* (the inner handler, each delivery attempt, each sleep).  Each has its   *)
(* own event object, its own locals and its own closure over the request;  *)
(* the module-level toggle is read by both.                                *)

ConcRequestIds == << "r1", "r2" >>
ConcLogicalIds == << "L1", "L2" >>
ConcUrls == << "http://x/y?t=1", "https://cfn.example/resp" >>
ConcData == << Obj([Secret |-> Str("s3cr3t")]), Obj([Secret |-> Str("hunter2")]) >>

\* The events of invocation p: they are distinct from the other's.
ConcEvents(p) ==
    [ RequestType        : { Str("Create"), Str("Delete") },
      StackId            : { Str("s") },
      RequestId          : { Str(ConcRequestIds[p]) },
      LogicalResourceId  : { Str(ConcLogicalIds[p]) },
      PhysicalResourceId : { undefined, Str(CREATE_FAILED_PHYSICAL_ID_MARKER) },
      ResponseURL        : { Str(ConcUrls[p]) },
      Data               : { ConcData[p] } ]

ConcOptions == { NoOptions, [ reason |-> Str("boom"), noEcho |-> Bool(TRUE) ] }

ConcRejections == { e \in Rejections : e.class \in {"Retry", "Error"} /\ e.message # Str("") }

\* submitResponse of invocation p up to its first await.
PSubmitResponse(p, status, ev, options, who) ==
    LET json == StatusPayload(status, ev, options)
        xs   == HttpRequestArgs(json, ev)
    IN  inv' = [inv EXCEPT ![p].pc = "submit",
                           ![p].event = ev,
                           ![p].call = [ status |-> status, options |-> options,
                                         who |-> who, xs |-> xs ],
                           ![p].requests = << xs >>]

PInvoke(p, ev) ==
    /\ inv[p].pc = "idle"
    /\ inv' = [inv EXCEPT ![p].pc = "entry", ![p].event = ev, ![p].received = ev]
    /\ UNCHANGED << pc, event, received, includeStackTraces, thrown, blockCalls, followUp,
                    call, reports, requests, outcomes, sleeps, logs, result, escaped, rule >>

\* safeHandler, lines 69-73.
PHandlerIgnoreDelete(p) ==
    /\ inv[p].pc = "entry"
    /\ IsIgnoredDelete(inv[p].event)
    /\ PSubmitResponse(p, "SUCCESS", inv[p].event, NoOptions, "ignore")
    /\ UNCHANGED << pc, event, received, includeStackTraces, thrown, blockCalls, followUp,
                    call, reports, requests, outcomes, sleeps, logs, result, escaped, rule >>

\* safeHandler, line 76.
PHandlerCallBlock(p) ==
    /\ inv[p].pc = "entry"
    /\ ~ IsIgnoredDelete(inv[p].event)
    /\ inv' = [inv EXCEPT ![p].pc = "block"]
    /\ UNCHANGED << pc, event, received, includeStackTraces, thrown, blockCalls, followUp,
                    call, reports, requests, outcomes, sleeps, logs, result, escaped, rule >>

PBlockReturns(p) ==
    /\ inv[p].pc = "block"
    /\ inv' = [inv EXCEPT ![p].pc = "done"]
    /\ UNCHANGED << pc, event, received, includeStackTraces, thrown, blockCalls, followUp,
                    call, reports, requests, outcomes, sleeps, logs, result, escaped, rule >>

PBlockThrows(p, e) ==
    /\ inv[p].pc = "block"
    /\ inv' = [inv EXCEPT ![p].pc = "catch", ![p].thrown = e]
    /\ UNCHANGED << pc, event, received, includeStackTraces, thrown, blockCalls, followUp,
                    call, reports, requests, outcomes, sleeps, logs, result, escaped, rule >>

\* safeHandler, lines 79-82.
PCatchRetry(p) ==
    /\ inv[p].pc = "catch"
    /\ InstanceofRetry(inv[p].thrown)
    /\ inv' = [inv EXCEPT ![p].pc = "done"]
    /\ UNCHANGED << pc, event, received, includeStackTraces, thrown, blockCalls, followUp,
                    call, reports, requests, outcomes, sleeps, logs, result, escaped, rule >>

\* safeHandler, lines 84-103: the toggle is read as it is at this moment.
PCatchReport(p) ==
    /\ inv[p].pc = "catch"
    /\ ~ InstanceofRetry(inv[p].thrown)
    /\ LET json == StatusPayload("FAILED", MarkCreateFailed(inv[p].event),
                                 [ reason |-> FailureReason(inv[p].thrown), noEcho |-> undefined ])
           xs   == HttpRequestArgs(json, MarkCreateFailed(inv[p].event))
       IN  inv' = [inv EXCEPT ![p].pc = "submit",
                              ![p].event = MarkCreateFailed(inv[p].event),
                              ![p].seen = includeStackTraces,
                              ![p].call = [ status |-> "FAILED",
                                            options |-> [ reason |-> FailureReason(inv[p].thrown),
                                                          noEcho |-> undefined ],
                                            who |-> "catch", xs |-> xs ],
                              ![p].requests = << xs >>]
    /\ UNCHANGED << pc, event, received, includeStackTraces, thrown, blockCalls, followUp,
                    call, reports, requests, outcomes, sleeps, logs, result, escaped, rule >>

\* Invocation p is a call of submitResponse by another caller.
PSubmitDirect(p, status, ev, options) ==
    /\ inv[p].pc = "idle"
    /\ inv' = [inv EXCEPT ![p].pc = "submit",
                          ![p].event = ev,
                          ![p].received = ev,
                          ![p].call = [ status |-> status, options |-> options, who |-> "direct",
                                        xs |-> HttpRequestArgs(StatusPayload(status, ev, options), ev) ],
                          ![p].requests = << HttpRequestArgs(StatusPayload(status, ev, options), ev) >>]
    /\ UNCHANGED << pc, event, received, includeStackTraces, thrown, blockCalls, followUp,
                    call, reports, requests, outcomes, sleeps, logs, result, escaped, rule >>

PDeliverySucceeds(p) ==
    /\ inv[p].pc = "submit"
    /\ inv' = [inv EXCEPT ![p].pc = "done"]
    /\ UNCHANGED << pc, event, received, includeStackTraces, thrown, blockCalls, followUp,
                    call, reports, requests, outcomes, sleeps, logs, result, escaped, rule >>

\* Mutant: the request of a retry is kept in one place for all invocations,
\* where the invocation that called last has left its own.
RequestToSendShared(p) ==
    IF \E q \in Procs \ {p} : inv[q].call # NoCall
    THEN inv[CHOOSE q \in Procs \ {p} : inv[q].call # NoCall].call.xs
    ELSE inv[p].call.xs

\* submitResponse, lines 51-59: the options and the body of every attempt are
\* the arguments this call passed to the function withRetries returned.
RequestToSend(p) == inv[p].call.xs

PDeliveryFailsRetry(p) ==
    /\ inv[p].pc = "submit"
    /\ withRetriesAgain(retryOptions, Len(inv[p].requests))
    /\ inv' = [inv EXCEPT ![p].requests = Append(@, RequestToSend(p))]
    /\ UNCHANGED << pc, event, received, includeStackTraces, thrown, blockCalls, followUp,
                    call, reports, requests, outcomes, sleeps, logs, result, escaped, rule >>

PDeliveryFailsGiveUp(p) ==
    /\ inv[p].pc = "submit"
    /\ ~ withRetriesAgain(retryOptions, Len(inv[p].requests))
    /\ inv' = [inv EXCEPT ![p].pc = "done"]
    /\ UNCHANGED << pc, event, received, includeStackTraces, thrown, blockCalls, followUp,
                    call, reports, requests, outcomes, sleeps, logs, result, escaped, rule >>

ConcNext ==
    \/ \E b \in BOOLEAN : SetIncludeStackTraces(b)
    \/ \E p \in Procs : \E ev \in ConcEvents(p) : PInvoke(p, ev)
    \/ \E p \in Procs : PHandlerIgnoreDelete(p)
    \/ \E p \in Procs : PHandlerCallBlock(p)
    \/ \E p \in Procs : PBlockReturns(p)
    \/ \E p \in Procs, e \in ConcRejections : PBlockThrows(p, e)
    \/ \E p \in Procs : PCatchRetry(p)
    \/ \E p \in Procs : PCatchReport(p)
    \/ \E p \in Procs, status \in {"SUCCESS", "FAILED"}, options \in ConcOptions :
          \E ev \in ConcEvents(p) : PSubmitDirect(p, status, ev, options)
    \/ \E p \in Procs : PDeliverySucceeds(p)
    \/ \E p \in Procs : PDeliveryFailsRetry(p)
    \/ \E p \in Procs : PDeliveryFailsGiveUp(p)

ConcSpec == Init /\ [][ConcNext]_vars

---------------------------------------------------------------------------
(* An ECS task as the target of an events rule.  The construct is used by  *)
(* the tests of aws-events-targets; a test creates a rule and adds EcsTask *)
(* targets to it, and reads the Targets of the synthesized rule.           *)

\* ecs.LaunchType
LaunchTypes == { Str("EC2"), Str("FARGATE"), Str("EXTERNAL") }

\* ecs.Compatibility of the task definitions the tests build.
Compatibilities == { "EC2", "FARGATE", "EC2_AND_FARGATE" }

\* ec2.SubnetType of the subnetSelection the tests pass; undefined when they
\* pass none.
SubnetTypes == { undefined, Str("PUBLIC"), Str("PRIVATE_ISOLATED") }

\* The props of an EcsTask that select its launch type and its network
\* configuration.
EcsTaskProps ==
    [ launchType : {undefined} \cup LaunchTypes, compatibility : Compatibilities,
      subnetType : SubnetTypes, assignPublicIp : { undefined, Bool(TRUE), Bool(FALSE) } ]

\* The addTarget calls made on a rule.
MaxTargets == 2

\* The task definition can be run on EC2 instances.
isEc2Compatible(compatibility) == compatibility \in {"EC2", "EC2_AND_FARGATE"}

\* Mutant: a task that names no launch type is a FARGATE task.
EcsTaskLaunchTypeDefaultFargate(props) ==
    IF props.launchType # undefined THEN props.launchType ELSE Str("FARGATE")

\* The launch type of the target: the one the props name, or the one the
\* task definition's compatibility gives.
EcsTaskLaunchType(props) ==
    IF props.launchType # undefined THEN props.launchType
    ELSE IF isEc2Compatible(props.compatibility) THEN Str("EC2")
    ELSE Str("FARGATE")

\* Mutant: assignPublicIp is not validated.
AssignPublicIpErrorsNone(props) == { }

\* The errors the props of an EcsTask are rejected with.  When both apply,
\* the one that is thrown is the one of the check that comes first.
AssignPublicIpErrors(props) ==
    { msg \in { "assignPublicIp is only supported for FARGATE tasks",
                "assignPublicIp should be set to true only for PUBLIC subnets" } :
        /\ props.assignPublicIp = Bool(TRUE)
        /\ \/ /\ msg = "assignPublicIp is only supported for FARGATE tasks"
              /\ EcsTaskLaunchType(props) # Str("FARGATE")
           \/ /\ msg = "assignPublicIp should be set to true only for PUBLIC subnets"
              /\ props.subnetType # Str("PUBLIC") }

\* AwsVpcConfiguration.AssignPublicIp of the target.
EcsTaskAssignPublicIp(props) ==
    IF props.assignPublicIp = Bool(TRUE) /\ props.subnetType = Str("PUBLIC")
    THEN "ENABLED" ELSE "DISABLED"

\* new events.Rule(stack, 'Rule', ...): a rule without targets.
NewRule ==
    /\ rule # << >>
    /\ rule' = << >>
    /\ UNCHANGED << pc, event, received, includeStackTraces, thrown, blockCalls, followUp,
                    call, reports, requests, outcomes, sleeps, logs, result, escaped, inv >>

\* rule.addTarget(new targets.EcsTask({ cluster, taskDefinition, ... })):
\* the call throws, or the rule has one more target.
AddTarget(props) ==
    /\ Len(rule) < MaxTargets
    /\ \/ /\ AssignPublicIpErrors(props) = { }
          /\ rule' = Append(rule,
                 [ props |-> props, threw |-> "",
                   EcsParameters |-> [ LaunchType |-> EcsTaskLaunchType(props),
                                       AssignPublicIp |-> EcsTaskAssignPublicIp(props) ] ])
       \/ \E msg \in AssignPublicIpErrors(props) :
              rule' = Append(rule, [ props |-> props, threw |-> msg, EcsParameters |-> Nothing ])
    /\ UNCHANGED << pc, event, received, includeStackTraces, thrown, blockCalls, followUp,
                    call, reports, requests, outcomes, sleeps, logs, result, escaped, inv >>

EcsNext ==
    \/ NewRule
    \/ \E props \in EcsTaskProps : AddTarget(props)

EcsSpec == Init /\ [][EcsNext]_vars

---------------------------------------------------------------------------
(* Properties                                                              *)

\* An invocation of the guarded handler is under way or over.
HandlerInvocation == pc # "idle" /\ call.who # "direct"

\* The inner handler failed with an error that is not the Retry signal: a
\* value that has (possibly undefined) stack and message properties.
FailedWithError == thrown.class \in {"Error", "Other"}

\* C1: for an event with RequestType = Delete and PhysicalResourceId = the
\* CREATE_FAILED marker the guarded handler never invokes the inner handler,
\* and once past its first test it has issued exactly one report, a SUCCESS.
C1_IgnoredDeleteReportsSuccess ==
    ( /\ HandlerInvocation
      /\ received.RequestType = Str("Delete")
      /\ received.PhysicalResourceId = Str(CREATE_FAILED_PHYSICAL_ID_MARKER) )
    => /\ blockCalls = 0
       /\ pc \in {"entry", "submit", "done"}
       /\ pc # "entry" =>
            /\ Len(reports) = 1
            /\ reports[1].Status = Str("SUCCESS")
            /\ call.who = "ignore"

C1_Witness ==
    /\ HandlerInvocation
    /\ pc = "done"
    /\ result = "returned"
    /\ received.RequestType = Str("Delete")
    /\ received.PhysicalResourceId = Str(CREATE_FAILED_PHYSICAL_ID_MARKER)
    /\ Len(reports) = 1

C3_RetryIsRethrownUnreported ==
    thrown.class = "Retry"
    => /\ reports = << >>
       /\ requests = << >>
       /\ pc \in {"catch", "done"}
       /\ pc = "done" => (result = "threw" /\ escaped = thrown)

C3_Witness ==
    /\ pc = "done"
    /\ thrown = RetrySignal
    /\ escaped = RetrySignal
    /\ received.RequestType = Str("Update")
    /\ received.PhysicalResourceId = Str("phys-1")

\* C4: when a Create event without physical id has failed in the inner handler
\* and the orchestrator submits the Delete that carries the PhysicalResourceId
\* of the delivered FAILED report, that Delete is the ignored one: the inner
\* handler is not invoked for it, its one report is SUCCESS, and over the two
\* invocations the inner handler has run exactly once.
C4_DeleteAfterFailedCreateIsAbsorbed ==
    ( /\ followUp # << >>
      /\ ~ Truthy(followUp[1].event.PhysicalResourceId) )
    => /\ received.RequestType = Str("Delete")
       /\ received.PhysicalResourceId = Str(CREATE_FAILED_PHYSICAL_ID_MARKER)
       /\ blockCalls = 0
       /\ followUp[1].blockCalls + blockCalls = 1
       /\ pc \in {"entry", "submit", "done"}
       /\ pc # "entry" => (Len(reports) = 1 /\ reports[1].Status = Str("SUCCESS"))

C4_Witness ==
    /\ followUp # << >>
    /\ followUp[1].event.PhysicalResourceId = undefined
    /\ pc = "done"
    /\ result = "returned"
    /\ Len(reports) = 1

\* C5: every payload built by submitResponse has a non-empty string as its
\* PhysicalResourceId: the event's own when the event has a non-empty one,
\* the MISSING_PHYSICAL_ID marker when the event's is absent or empty; and the
\* body handed to the transport carries that member.
C5_PhysicalResourceIdNeverEmpty ==
    \A i \in 1..Len(reports) :
        LET id == reports[i].PhysicalResourceId
        IN  /\ id.t = "string"
            /\ id.s # ""
            /\ id = IF event.PhysicalResourceId \in {undefined, Str("")}
                    THEN Str(MISSING_PHYSICAL_ID_MARKER)
                    ELSE event.PhysicalResourceId
            /\ \A n \in 1..Len(requests) :
                   Get(JSONparse(requests[n].body), "PhysicalResourceId") = id

C5_Witness ==
    /\ pc = "done"
    /\ Len(reports) = 1
    /\ event.PhysicalResourceId = undefined
    /\ reports[1].PhysicalResourceId = Str(MISSING_PHYSICAL_ID_MARKER)

\* C6: a submitResponse call makes at most 5 delivery attempts, one after
\* another: an attempt is made only after every earlier one was rejected, a
\* delay of 1000 is slept before each re-attempt, the call returns at the
\* first attempt that resolves, and it gives up only after 5 rejections.
C6_BoundedSequentialRetries ==
    call.who # "none"
    => /\ Len(requests) \in 1..5
       /\ Len(sleeps) = Len(requests) - 1
       /\ \A i \in 1..Len(sleeps) : sleeps[i] = 1000
       /\ \A i \in 1..(Len(requests) - 1) : outcomes[i] = "rejected"
       /\ pc = "submit" => Len(outcomes) = Len(requests) - 1
       /\ pc = "done" =>
            /\ Len(outcomes) = Len(requests)
            /\ outcomes[Len(outcomes)] = "resolved" => result = "returned"
            /\ outcomes[Len(outcomes)] = "rejected" =>
                   (Len(requests) = 5 /\ result = "threw")

C6_Witness ==
    /\ pc = "done"
    /\ result = "returned"
    /\ outcomes = << "rejected", "rejected", "rejected", "rejected", "resolved" >>
    /\ Len(requests) = 5
    /\ sleeps = << 1000, 1000, 1000, 1000 >>

\* What a finished submitResponse call did: it threw exactly when every one
\* of its delivery attempts was rejected, and then what it threw is the
\* transport's error; nothing is thrown while it is under way.
SubmitOutcome ==
    call.who # "none"
    => /\ pc \in {"submit", "done"}
       /\ pc = "submit" => (result = "pending" /\ escaped = Nothing)
       /\ pc = "done" =>
            /\ result \in {"returned", "threw"}
            /\ result = "threw" <=> \A i \in 1..Len(outcomes) : outcomes[i] = "rejected"
            /\ result = "threw" <=> escaped = TransportError
            /\ result = "returned" => escaped = Nothing

\* C7: for the (well-formed) events of the model submitResponse fails if and
\* only if every one of its delivery attempts fails, the failure being the
\* transport's error, and every call ends, returning or throwing.
C7_SubmitFailsIffEveryAttemptFails ==
    /\ [] SubmitOutcome
    /\ (pc = "submit") ~> (pc = "done")

C7_Witness ==
    /\ call.who = "direct"
    /\ pc = "done"
    /\ result = "threw"
    /\ escaped = TransportError
    /\ Len(outcomes) = 5

\* C8: when the inner handler has returned normally the guarded handler
\* returns without having called submitResponse, and the event is the one
\* the orchestrator submitted.
C8_SuccessPathReportsNothing ==
    ( /\ HandlerInvocation
      /\ pc \in {"submit", "done"}
      /\ blockCalls = 1
      /\ thrown = Nothing )
    => /\ pc = "done"
       /\ result = "returned"
       /\ call = NoCall
       /\ reports = << >>
       /\ requests = << >>
       /\ event = received

C8_Witness ==
    /\ HandlerInvocation
    /\ pc = "done"
    /\ blockCalls = 1
    /\ thrown = Nothing
    /\ received.RequestType = Str("Create")
    /\ reports = << >>

\* C9 as stated: the Reason of the FAILED report is the failure's stack when
\* includeStackTraces is true and its message when it is false, for every
\* failure value.
C9_ReasonIsStackOrMessage ==
    call.who = "catch"
    => reports[1].Reason = IF includeStackTraces THEN thrown.stack ELSE thrown.message

\* The Reason of the FAILED report of the catch block.
ReasonOfFailure ==
    call.who = "catch"
    => LET selected == IF includeStackTraces THEN thrown.stack ELSE thrown.message
       IN  reports[1].Reason = IF selected \in {undefined, Str("")}
                               THEN Str("FAILED")
                               ELSE selected

\* C9, amended: the Reason of the FAILED report is the failure's stack when
\* includeStackTraces is true and its message when it is false, provided that
\* value is a non-empty string; when it is empty or undefined the Reason is
\* 'FAILED'.  The toggle's initial value is true.
C9_ReasonIsStackOrMessageOrStatus ==
    /\ includeStackTraces = TRUE
    /\ [] ReasonOfFailure

C9_Witness ==
    /\ call.who = "catch"
    /\ pc = "done"
    /\ ~ includeStackTraces
    /\ thrown.message = Str("")
    /\ reports[1].Reason = Str("FAILED")

\* C10 as stated: the payload's Reason is options.reason whenever a reason is
\* supplied, and the status string when none is.
C10_ReasonIsSuppliedReason ==
    call.who # "none"
    => reports[1].Reason = IF call.options.reason # undefined
                           THEN call.options.reason
                           ELSE Str(call.status)

\* C10, amended: the payload's Reason is options.reason whenever a non-empty
\* reason is supplied, and the status string when no reason, or an empty
\* one, is supplied.
C10_ReasonIsNonEmptyReasonOrStatus ==
    call.who # "none"
    => /\ call.status \in {"SUCCESS", "FAILED"}
       /\ reports[1].Reason = IF call.options.reason \in {undefined, Str("")}
                              THEN Str(call.status)
                              ELSE call.options.reason

C10_Witness ==
    /\ call.who = "direct"
    /\ pc = "done"
    /\ call.status = "SUCCESS"
    /\ call.options.reason = Str("")
    /\ reports[1].Reason = Str("SUCCESS")

\* A submitResponse call with noEcho set is under way or over: its log line
\* carries what redactDataFromPayload returned for its payload.
RedactedCall == call.who # "none" /\ Truthy(call.options.noEcho)

\* The payload that was logged by the call.
Logged == logs[Len(logs)][3]

\* Object.keys(obj)
Keys(obj) == DOMAIN obj.o

\* The payload object is, after redactDataFromPayload was called on it, as
\* it was built: it holds the event's Data, and it serialises to the body
\* that was sent.
ArgumentUnchanged ==
    /\ reports[1].Data = event.Data
    /\ JSONstringify(Obj(reports[1])) = call.xs.body

\* C11 as stated: redactDataFromPayload does not change its argument, and
\* the Data of its result has the keys of the Data of its argument.
C11_RedactKeepsArgumentAndKeys ==
    RedactedCall
    => /\ ArgumentUnchanged
       /\ event.Data # undefined => Keys(Get(Logged, "Data")) = Keys(event.Data)

\* C11, amended: redactDataFromPayload does not change its argument, and the
\* Data of its result has the keys of the Data of its argument whose value
\* is not undefined (the keys the JSON copy keeps).
C11_RedactKeepsArgumentAndDefinedKeys ==
    RedactedCall
    => /\ ArgumentUnchanged
       /\ event.Data # undefined =>
            Keys(Get(Logged, "Data")) =
                { k \in Keys(event.Data) : event.Data.o[k] # undefined }

C11_Witness ==
    /\ RedactedCall
    /\ pc = "done"
    /\ event.Data = Obj([Arn |-> Str("arn:1"), Opt |-> undefined])
    /\ Keys(Get(Logged, "Data")) = {"Arn"}
    /\ reports[1].Data = event.Data

\* C12: what redactDataFromPayload returns has '*****' for every value of
\* its Data and, read field by field, the argument's value for every other
\* field; without Data it reads as the argument does; and redacting it again
\* gives it back.
C12_RedactMasksEveryValue ==
    RedactedCall
    => /\ \A f \in DOMAIN reports[1] \ {"Data"} : Get(Logged, f) = reports[1][f]
       /\ event.Data = undefined => Get(Logged, "Data") = undefined
       /\ event.Data # undefined =>
            \A k \in Keys(Get(Logged, "Data")) : Get(Logged, "Data").o[k] = Str("*****")
       /\ redactDataFromPayload(Logged) = Logged

C12_Witness ==
    /\ RedactedCall
    /\ pc = "done"
    /\ event.Data = Obj([Secret |-> Str("s3cr3t")])
    /\ Get(Logged, "Data") = Obj([Secret |-> Str("*****")])
    /\ Get(Logged, "NoEcho") = Bool(TRUE)

\* C13: the body of every delivery attempt carries the event's own Data
\* values, whether noEcho is set or not: no Data member when the event has no
\* Data, and otherwise every value of the event's Data that is not undefined,
\* under its key, and nothing else.
C13_WireDataIsEventData ==
    \A n \in 1..Len(requests) :
        LET sent == Get(JSONparse(requests[n].body), "Data")
        IN  /\ event.Data = undefined => sent = undefined
            /\ event.Data # undefined =>
                 /\ Keys(sent) \subseteq Keys(event.Data)
                 /\ \A k \in Keys(event.Data) : Get(sent, k) = event.Data.o[k]

C13_Witness ==
    /\ RedactedCall
    /\ pc = "done"
    /\ Len(requests) = 2
    /\ event.Data = Obj([Secret |-> Str("s3cr3t")])
    /\ Get(JSONparse(requests[2].body), "Data") = Obj([Secret |-> Str("s3cr3t")])
    /\ Get(Logged, "Data") = Obj([Secret |-> Str("*****")])

\* The line that submitResponse logs: the last one of the log.
SubmitLine == logs[Len(logs)]

\* The keys of a Data map that hold a value other than undefined.
DefinedKeys(data) == { k \in Keys(data) : data.o[k] # undefined }

\* Two events that differ at most in the values of their Data.
SameButDataValues(ev1, ev2) ==
    /\ [ev1 EXCEPT !.Data = undefined] = [ev2 EXCEPT !.Data = undefined]
    /\ (ev1.Data = undefined) <=> (ev2.Data = undefined)
    /\ ev1.Data # undefined => Keys(ev1.Data) = Keys(ev2.Data)

\* The line a call with the same status and options logs for another event.
LineFor(ev) == SubmitLogLine(StatusPayload(call.status, ev, call.options), ev, call.options)

\* Without noEcho the payload that is logged is the one that is sent.
LoggedIsSent ==
    (call.who # "none" /\ ~ Truthy(call.options.noEcho))
    => JSONstringify(Logged) = call.xs.body

\* C14 as stated: with noEcho set, two calls whose events differ only in the
\* values (not the keys) of Data log the same line, which shows the masking
\* token for every key of Data; without noEcho the logged payload is the
\* wire payload.
C14_RedactedLogIndependentOfValues ==
    /\ RedactedCall =>
         /\ \A ev2 \in Events : SameButDataValues(event, ev2) => LineFor(ev2) = SubmitLine
         /\ event.Data # undefined =>
              \A k \in Keys(event.Data) : Get(Get(Logged, "Data"), k) = Str("*****")
    /\ LoggedIsSent

\* C14, amended: with noEcho set, two calls whose events differ only in the
\* values of Data, the same keys holding a value other than undefined in
\* both, log the same line, which shows the masking token for every such
\* key (a key whose value is undefined is not in the line); without noEcho
\* the logged payload is the wire payload.
C14_RedactedLogIndependentOfDefinedValues ==
    /\ RedactedCall =>
         /\ \A ev2 \in Events :
               ( /\ SameButDataValues(event, ev2)
                 /\ event.Data # undefined => DefinedKeys(event.Data) = DefinedKeys(ev2.Data) )
               => LineFor(ev2) = SubmitLine
         /\ event.Data # undefined =>
              /\ Keys(Get(Logged, "Data")) = DefinedKeys(event.Data)
              /\ \A k \in DefinedKeys(event.Data) : Get(Get(Logged, "Data"), k) = Str("*****")
    /\ LoggedIsSent

C14_Witness ==
    /\ RedactedCall
    /\ pc = "done"
    /\ event.Data = Obj([Secret |-> Str("s3cr3t")])
    /\ LineFor([event EXCEPT !.Data = Obj([Secret |-> Str("hunter2")])]) = SubmitLine

\* The parts of the event's ResponseURL.
UrlOf(ev) == CHOOSE u \in UrlParts : Href(u) = ev.ResponseURL.s

\* C15: the URL in the log line is made of the protocol, the host name and
\* the path name of the event's ResponseURL and a fixed placeholder, so it
\* is the same for two URLs that differ only in their query; every PUT goes
\* to the host name and to the path with its query as it is in the event.
C15_LoggedUrlHasNoQuery ==
    call.who # "none"
    => LET u == UrlOf(event)
       IN  /\ SubmitLine[2] = u.protocol \o "//" \o u.hostname \o "/" \o u.pathname \o "?***"
           /\ \A ev2 \in Events :
                 ( /\ [ev2 EXCEPT !.ResponseURL = event.ResponseURL] = event
                   /\ [UrlOf(ev2) EXCEPT !.search = u.search] = u )
                 => LineFor(ev2)[2] = SubmitLine[2]
           /\ \A n \in 1..Len(requests) :
                 /\ requests[n].method = "PUT"
                 /\ requests[n].hostname = u.hostname
                 /\ requests[n].path = u.pathname \o u.search

C15_Witness ==
    /\ call.who = "catch"
    /\ pc = "done"
    /\ event.ResponseURL = Str("http://x/y?t=1")
    /\ SubmitLine[2] = "http://x//y?***"
    /\ requests[1].path = "/y?t=1"
    /\ requests[1].hostname = "x"

\* The catch block has handled a failure that is an error.
CaughtError == HandlerInvocation /\ FailedWithError /\ pc \in {"submit", "done"}

\* The lines of the log that are the malformed-event warning.
MalformedWarnings ==
    { i \in 1..Len(logs) :
        logs[i][1] = "ERROR: Malformed event. \"PhysicalResourceId\" is required: " }

MarkerOnlyOnCreateWithoutId ==
    CaughtError
    => IF received.RequestType = Str("Create") /\ ~ Truthy(received.PhysicalResourceId)
       THEN event = [received EXCEPT
                       !.PhysicalResourceId = Str(CREATE_FAILED_PHYSICAL_ID_MARKER)]
       ELSE event = received

RECURSIVE SameRead(_, _)
SameRead(a, b) ==
    IF a.t = "object" /\ b.t = "object"
    THEN \A k \in Keys(a) \cup Keys(b) : SameRead(Get(a, k), Get(b, k))
    ELSE a = b

SequentialRequest(p) ==
    LET own == inv[p]
        failed == MarkCreateFailed(own.received)
    IN  CASE own.call.who = "ignore" ->
                HttpRequestArgs(StatusPayload("SUCCESS", own.received, NoOptions), own.received)
          [] own.call.who = "catch" ->
                HttpRequestArgs(
                    StatusPayload("FAILED", failed,
                                  [ reason |-> IF own.seen THEN own.thrown.stack
                                                           ELSE own.thrown.message,
                                    noEcho |-> undefined ]),
                    failed)
          [] own.call.who = "direct" ->
                HttpRequestArgs(StatusPayload(own.call.status, own.received, own.call.options),
                                own.received)

\* C19: under every interleaving of two invocations on distinct events, the
\* retries included, every request an invocation hands to the transport is
\* the one a sequential run delivers for its own inputs: it goes to its own
\* callback URL and carries its own identifiers, status, reason and data; of
\* what the other invocation does, only the toggle as read has a part in it.
C19_ConcurrentInvocationsDoNotInterfere ==
    \A p \in Procs : \A n \in 1..Len(inv[p].requests) :
        LET back == JSONparse(inv[p].requests[n].body)
            own  == inv[p].received
        IN  /\ inv[p].requests[n] = SequentialRequest(p)
            /\ inv[p].requests[n].hostname = url_parse(own.ResponseURL.s).hostname
            /\ inv[p].requests[n].path = url_parse(own.ResponseURL.s).path
            /\ Get(back, "RequestId") = Str(ConcRequestIds[p])
            /\ Get(back, "LogicalResourceId") = Str(ConcLogicalIds[p])
            /\ Get(back, "Data") = ConcData[p]
            /\ Get(back, "Status") = Str(inv[p].call.status)
            /\ inv[p].call.who = "catch"
               => Get(back, "Reason") \in {inv[p].thrown.stack, inv[p].thrown.message}

\* Both invocations have failed and are retrying their deliveries in turn,
\* and the toggle was assigned between their two reads of it.
C19_Witness ==
    /\ \A p \in Procs : inv[p].pc = "submit" /\ inv[p].call.who = "catch"
    /\ Len(inv[1].requests) = 3
    /\ Len(inv[2].requests) = 2
    /\ inv[1].seen /\ ~ inv[2].seen
    /\ Get(JSONparse(inv[1].requests[3].body), "RequestId") = Str("r1")
    /\ Get(JSONparse(inv[2].requests[2].body), "RequestId") = Str("r2")

\* The cases of the test 'launch type %s is set by %s type specified':
\* the expected LaunchType, the launchType passed, the compatibility of the
\* task definition.
LaunchTypeCases ==
    { << Str("EC2"),      Str("EC2"),      "EC2_AND_FARGATE" >>,
      << Str("FARGATE"),  Str("FARGATE"),  "EC2_AND_FARGATE" >>,
      << Str("EXTERNAL"), Str("EXTERNAL"), "EC2_AND_FARGATE" >>,
      << Str("EC2"),      undefined,       "EC2_AND_FARGATE" >>,
      << Str("FARGATE"),  undefined,       "FARGATE" >> }

\* C20: the LaunchType of every EcsTask target of the rule is the launchType
\* its props name when they name one (EC2, FARGATE or EXTERNAL); when they
\* name none it is EC2 for a task definition that is EC2-compatible and
\* FARGATE otherwise; and it is what each case of the test expects.
C20_LaunchTypeSelection ==
    \A n \in { i \in 1..Len(rule) : rule[i].threw = "" } :
        LET props == rule[n].props
            LaunchType == rule[n].EcsParameters.LaunchType
        IN  /\ props.launchType \in LaunchTypes => LaunchType = props.launchType
            /\ (props.launchType = undefined /\ props.compatibility \in {"EC2", "EC2_AND_FARGATE"})
               => LaunchType = Str("EC2")
            /\ (props.launchType = undefined /\ props.compatibility = "FARGATE")
               => LaunchType = Str("FARGATE")
            /\ \A case \in LaunchTypeCases :
                  (props.launchType = case[2] /\ props.compatibility = case[3])
                  => LaunchType = case[1]

\* A rule with two targets that name no launch type: one EC2-compatible,
\* one for FARGATE only.
C20_Witness ==
    /\ Len(rule) = 2
    /\ rule[1].props.launchType = undefined
    /\ rule[1].props.compatibility = "EC2_AND_FARGATE"
    /\ rule[1].EcsParameters.LaunchType = Str("EC2")
    /\ rule[2].props.launchType = undefined
    /\ rule[2].props.compatibility = "FARGATE"
    /\ rule[2].EcsParameters.LaunchType = Str("FARGATE")

\* The cases of the tests of assignPublicIp: the compatibility of the task
\* definition, the subnetType selected, assignPublicIp, and what is expected:
\* the AssignPublicIp of the target, or the message of the error.  None of
\* them names a launchType.
AssignPublicIpCases ==
    { << "FARGATE", undefined,               undefined,   "DISABLED" >>,
      << "FARGATE", Str("PRIVATE_ISOLATED"), undefined,   "DISABLED" >>,
      << "FARGATE", Str("PUBLIC"),           Bool(TRUE),  "ENABLED" >>,
      << "FARGATE", Str("PUBLIC"),           Bool(FALSE), "DISABLED" >>,
      << "EC2",     Str("PUBLIC"),           Bool(TRUE),
         "assignPublicIp is only supported for FARGATE tasks" >>,
      << "FARGATE", Str("PRIVATE_ISOLATED"), Bool(TRUE),
         "assignPublicIp should be set to true only for PUBLIC subnets" >> }

\* What the call gave: the message of its error, or the AssignPublicIp of
\* the target it added.
AddTargetOutcome(n) ==
    IF rule[n].threw # "" THEN rule[n].threw ELSE rule[n].EcsParameters.AssignPublicIp

\* C21: adding an EcsTask target throws 'assignPublicIp is only supported
\* for FARGATE tasks' when assignPublicIp is true and the task's launch type
\* is not FARGATE, and 'assignPublicIp should be set to true only for PUBLIC
\* subnets' when it is true and the subnets selected are not PUBLIC (one of the
\* two when both apply); otherwise it does not throw, and AssignPublicIp is
\* ENABLED exactly when assignPublicIp is true on PUBLIC subnets and DISABLED
\* otherwise; and every call gives what the tests expect of it.
C21_AssignPublicIpValidation ==
    \A n \in 1..Len(rule) :
        LET props     == rule[n].props
            isTrue    == props.assignPublicIp = Bool(TRUE)
            isFargate == EcsTaskLaunchType(props) = Str("FARGATE")
            isPublic  == props.subnetType = Str("PUBLIC")
        IN  /\ (isTrue /\ ~ isFargate /\ isPublic)
               => rule[n].threw = "assignPublicIp is only supported for FARGATE tasks"
            /\ (isTrue /\ isFargate /\ ~ isPublic)
               => rule[n].threw = "assignPublicIp should be set to true only for PUBLIC subnets"
            /\ (isTrue /\ ~ isFargate /\ ~ isPublic)
               => rule[n].threw \in { "assignPublicIp is only supported for FARGATE tasks",
                                      "assignPublicIp should be set to true only for PUBLIC subnets" }
            /\ (isTrue /\ isFargate /\ isPublic)
               => rule[n].threw = "" /\ rule[n].EcsParameters.AssignPublicIp = "ENABLED"
            /\ ~ isTrue
               => rule[n].threw = "" /\ rule[n].EcsParameters.AssignPublicIp = "DISABLED"
            /\ \A case \in AssignPublicIpCases :
                  ( /\ props.launchType = undefined
                    /\ props.compatibility = case[1]
                    /\ props.subnetType = case[2]
                    /\ props.assignPublicIp = case[3] )
                  => AddTargetOutcome(n) = case[4]

\* A first call that throws for an EC2 task on PUBLIC subnets, and a second
\* that adds a FARGATE target with a public address.
C21_Witness ==
    /\ Len(rule) = 2
    /\ rule[1].props.compatibility = "EC2"
    /\ rule[1].props.launchType = undefined
    /\ rule[1].props.subnetType = Str("PUBLIC")
    /\ rule[1].threw = "assignPublicIp is only supported for FARGATE tasks"
    /\ rule[2].props.compatibility = "FARGATE"
    /\ rule[2].props.assignPublicIp = Bool(TRUE)
    /\ rule[2].threw = ""
    /\ rule[2].EcsParameters.AssignPublicIp = "ENABLED"

\* The statuses of the reports the wrapper has issued in this invocation.
ReportedStatuses == { reports[n].Status : n \in 1..Len(reports) }

\* The catch block has run for a failure that is no Retry signal.
CaughtNonRetry ==
    /\ HandlerInvocation
    /\ pc \in {"submit", "done"}
    /\ thrown # Nothing
    /\ ~ InstanceofRetry(thrown)

\* C22 as stated: in an invocation of the guarded handler the inner handler
\* is invoked at most once and at most one report is issued, never a SUCCESS
\* and a FAILED; once the wrapper is past its decision there is exactly one
\* SUCCESS on the delete-after-failed-create path, exactly one FAILED after
\* a failure that is no Retry signal, and none after the inner handler has
\* returned or has thrown the Retry signal.
C22_AtMostOneReportPerInvocation ==
    HandlerInvocation
    => /\ blockCalls <= 1
       /\ Len(reports) <= 1
       /\ ReportedStatuses # { Str("SUCCESS"), Str("FAILED") }
       /\ (pc \in {"submit", "done"} /\ IsIgnoredDelete(received))
          => blockCalls = 0 /\ Len(reports) = 1 /\ ReportedStatuses = { Str("SUCCESS") }
       /\ CaughtNonRetry
          => blockCalls = 1 /\ Len(reports) = 1 /\ ReportedStatuses = { Str("FAILED") }
       /\ (pc = "done" /\ blockCalls = 1 /\ thrown = Nothing) => reports = << >>
       /\ (pc = "done" /\ thrown # Nothing /\ InstanceofRetry(thrown)) => reports = << >>

\* The inner handler has rejected with null: the guarded handler is over and
\* nothing was reported.
C22_Witness ==
    /\ CaughtNonRetry
    /\ pc = "done"
    /\ thrown.class = "Nullish"
    /\ blockCalls = 1
    /\ reports = << >>
    /\ requests = << >>
    /\ result = "threw"
    /\ escaped = TypeError

\* C23: the FAILED report of a Create event that came without physical id
\* carries the CREATE_FAILED marker, in the payload and in the body of every
\* delivery attempt, and never the MISSING_PHYSICAL_ID marker; the Delete the
\* orchestrator submits after it carries that marker.
C23_FailedCreateReportsCreateFailedMarker ==
    /\ ( /\ HandlerInvocation
         /\ call.who = "catch"
         /\ received.RequestType = Str("Create")
         /\ ~ Truthy(received.PhysicalResourceId) )
       => /\ \A n \in 1..Len(reports) :
               /\ reports[n].Status = Str("FAILED")
               /\ reports[n].PhysicalResourceId = Str(CREATE_FAILED_PHYSICAL_ID_MARKER)
               /\ reports[n].PhysicalResourceId # Str(MISSING_PHYSICAL_ID_MARKER)
          /\ \A n \in 1..Len(requests) :
               Get(JSONparse(requests[n].body), "PhysicalResourceId")
                   = Str(CREATE_FAILED_PHYSICAL_ID_MARKER)
    /\ ( /\ followUp # << >>
         /\ pc # "idle"
         /\ ~ Truthy(followUp[1].event.PhysicalResourceId) )
       => received.PhysicalResourceId = Str(CREATE_FAILED_PHYSICAL_ID_MARKER)

C23_Witness ==
    /\ followUp # << >>
    /\ followUp[1].event.RequestType = Str("Create")
    /\ followUp[1].event.PhysicalResourceId = Str("")
    /\ received.RequestType = Str("Delete")
    /\ received.PhysicalResourceId = Str(CREATE_FAILED_PHYSICAL_ID_MARKER)
    /\ pc = "done"
    /\ blockCalls = 0

\* C24: once the guarded handler is past its first test, the inner handler
\* has been skipped if and only if the event is a Delete whose physical id is
\* exactly the CREATE_FAILED marker; a Create or an Update with that marker,
\* and a Delete with the MISSING_PHYSICAL_ID marker, another id or none, have
\* all reached the inner handler; the two markers are different strings.
C24_SkippedIffDeleteWithCreateFailedMarker ==
    /\ CREATE_FAILED_PHYSICAL_ID_MARKER # MISSING_PHYSICAL_ID_MARKER
    /\ (HandlerInvocation /\ pc # "entry")
       => /\ blockCalls \in {0, 1}
          /\ blockCalls = 0
             <=> /\ received.RequestType = Str("Delete")
                 /\ received.PhysicalResourceId = Str(CREATE_FAILED_PHYSICAL_ID_MARKER)
          /\ ( /\ received.RequestType \in {Str("Create"), Str("Update")}
               /\ received.PhysicalResourceId = Str(CREATE_FAILED_PHYSICAL_ID_MARKER) )
             => blockCalls = 1
          /\ ( /\ received.RequestType = Str("Delete")
               /\ received.PhysicalResourceId \in
                      { Str(MISSING_PHYSICAL_ID_MARKER), Str("phys-1"), Str(""), undefined } )
             => blockCalls = 1

\* A Delete that carries the MISSING_PHYSICAL_ID marker is in the inner handler.
C24_Witness ==
    /\ HandlerInvocation
    /\ pc = "block"
    /\ blockCalls = 1
    /\ received.RequestType = Str("Delete")
    /\ received.PhysicalResourceId = Str(MISSING_PHYSICAL_ID_MARKER)

\* C25 as stated: after a failure of the inner handler that is no Retry
\* signal, if the FAILED report is delivered the guarded handler returns and
\* the failure does not reach its caller; and whatever the guarded handler
\* ends with, when it throws, is the Retry signal of the inner handler or the
\* error of the transport.
C25_OnlyRetryAndTransportErrorsEscape ==
    (HandlerInvocation /\ pc = "done")
    => /\ ( /\ CaughtNonRetry
            /\ outcomes # << >>
            /\ outcomes[Len(outcomes)] = "resolved" )
          => /\ result = "returned"
             /\ escaped = Nothing
       /\ result = "threw"
          => \/ escaped = TransportError
             \/ InstanceofRetry(thrown) /\ escaped = thrown
       /\ CaughtNonRetry => escaped # thrown

\* A Delete whose inner handler rejected with null has ended the guarded
\* handler with a TypeError.
C25_Witness ==
    /\ HandlerInvocation
    /\ pc = "done"
    /\ received.RequestType = Str("Delete")
    /\ thrown.class = "Nullish"
    /\ result = "threw"
    /\ escaped = TypeError
    /\ outcomes = << >>

\* Every delivery attempt the retry options allow has been made and has failed.
DeliveryExhausted ==
    /\ pc = "done"
    /\ Len(outcomes) = retryOptions.attempts
    /\ \A n \in 1..Len(outcomes) : outcomes[n] = "rejected"

\* C26: when every delivery attempt of a report of the wrapper (the SUCCESS of
\* the ignored Delete, the FAILED of the catch block) has failed, the guarded
\* handler ends by throwing the transport's error; the inner handler has run
\* as often as before the report (never, once), that report is the only one,
\* no attempt follows the last, and the Create that came without physical id
\* still carries the CREATE_FAILED marker.
C26_TransportFailureEscapes ==
    (HandlerInvocation /\ DeliveryExhausted)
    => /\ result = "threw"
       /\ escaped = TransportError
       /\ Len(reports) = 1
       /\ Len(requests) = retryOptions.attempts
       /\ call.who \in {"ignore", "catch"}
       /\ call.who = "ignore" => blockCalls = 0 /\ reports[1].Status = Str("SUCCESS")
       /\ call.who = "catch" => blockCalls = 1 /\ reports[1].Status = Str("FAILED")
       /\ (received.RequestType = Str("Create") /\ ~ Truthy(received.PhysicalResourceId))
          => event.PhysicalResourceId = Str(CREATE_FAILED_PHYSICAL_ID_MARKER)

C26_Witness ==
    /\ HandlerInvocation
    /\ DeliveryExhausted
    /\ call.who = "catch"
    /\ received.RequestType = Str("Create")
    /\ received.PhysicalResourceId = undefined
    /\ event.PhysicalResourceId = Str(CREATE_FAILED_PHYSICAL_ID_MARKER)
    /\ escaped = TransportError

\* The guarded handler is invoked again after a Retry signal.
InvokedAgain == followUp # << >> /\ "again" \in DOMAIN followUp[1]

\* C27: when the inner handler has thrown the Retry signal the event is as
\* the orchestrator submitted it: a Create without physical id has not got
\* the CREATE_FAILED marker; and when the guarded handler is invoked again
\* with that event it is the event of the first invocation, and it reaches
\* the inner handler again.
C27_RetryLeavesEventUnchanged ==
    /\ (HandlerInvocation /\ thrown # Nothing /\ InstanceofRetry(thrown))
       => /\ event = received
          /\ (received.RequestType = Str("Create") /\ ~ Truthy(received.PhysicalResourceId))
             => event.PhysicalResourceId # Str(CREATE_FAILED_PHYSICAL_ID_MARKER)
          /\ pc = "done" => reports = << >> /\ escaped = thrown
    /\ InvokedAgain
       => /\ followUp[1].blockCalls = 1
          /\ received = followUp[1].again
          /\ pc = "entry" => event = received /\ ~ IsIgnoredDelete(event)
          /\ pc # "entry" => blockCalls = 1

\* A Create without physical id is in the inner handler for the second time.
C27_Witness ==
    /\ InvokedAgain
    /\ pc = "block"
    /\ blockCalls = 1
    /\ followUp[1].blockCalls = 1
    /\ received.RequestType = Str("Create")
    /\ received.PhysicalResourceId = undefined
    /\ event.PhysicalResourceId = undefined

\* The lines of the log that submitResponse wrote.
SubmitLines ==
    { i \in 1..Len(logs) :
        logs[i][1] \in { "submit response to cloudformation",
                         "submit redacted response to cloudformation" } }

\* C28: in a call of submitResponse the line is logged exactly once, however
\* many attempts follow, and it is in the log when the first attempt is made;
\* every attempt, the first and each retry, sends the same body with method
\* PUT to the same host and path with the same headers; and the event is the
\* one the call was given: the caller's own for a direct call and the ignored
\* Delete, the one the catch block prepared for the FAILED report.
C28_OneLogLineThenIdenticalAttempts ==
    call # NoCall
    => /\ Cardinality(SubmitLines) = 1
       /\ SubmitLines = { Len(call.logged) }
       /\ call.logged = logs
       /\ Len(requests) >= 1
       /\ \A n \in 1..Len(requests) :
             /\ requests[n] = requests[1]
             /\ requests[n].method = "PUT"
             /\ requests[n].body = JSONstringify(Obj(reports[1]))
             /\ requests[n].hostname = url_parse(event.ResponseURL.s).hostname
             /\ requests[n].path = url_parse(event.ResponseURL.s).path
             /\ requests[n].headers =
                    [ contentType |-> "", contentLength |-> byteLength(requests[1].body) ]
       /\ call.who \in {"direct", "ignore"} => event = received
       /\ call.who = "catch" => event = MarkCreateFailed(received)

\* The third attempt of a call with noEcho and Data to hide has been made.
C28_Witness ==
    /\ call.who = "direct"
    /\ pc = "submit"
    /\ Len(requests) = 3
    /\ call.options.noEcho = Bool(TRUE)
    /\ event.Data = Obj([Secret |-> Str("s3cr3t")])
    /\ requests[3] = requests[1]
    /\ SubmitLines = {1}

=============================================================================
